---------------------------- MODULE Spec2Model ----------------------------
(***************************************************************************)
(* Model of the SafeWord profanity-detection API (src/src/index.ts).       *)
(*                                                                         *)
(* A text is a sequence of one-character strings.  Oracle scores are kept  *)
(* in hundredths (0.95 is 95), so comparisons with the two thresholds are  *)
(* exact.  A request is one call of the POST handler: validation,          *)
(* sanitisation, segmentation, the word fan-out, the chunk fan-out and the *)
(* final reduction of the per-request Map to a verdict.                    *)
(***************************************************************************)
EXTENDS Integers, Sequences, FiniteSets, TLC

(***************************************************************************)
(* Characters and JavaScript string primitives                             *)
(***************************************************************************)
LowerSeq ==
    << "a","b","c","d","e","f","g","h","i","j","k","l","m",
       "n","o","p","q","r","s","t","u","v","w","x","y","z" >>

UpperSeq ==
    << "A","B","C","D","E","F","G","H","I","J","K","L","M",
       "N","O","P","Q","R","S","T","U","V","W","X","Y","Z" >>

Range(f) == { f[i] : i \in DOMAIN f }

Digits == { "0","1","2","3","4","5","6","7","8","9" }

\* \s of a JavaScript regular expression, restricted to the characters used.
IsWhitespace(c) == c \in { " ", "\t", "\n" }

\* \w of a JavaScript regular expression: [A-Za-z0-9_].
IsWordChar(c) == c \in Range(LowerSeq) \cup Range(UpperSeq) \cup Digits \cup { "_" }

ToLowerChar(c) ==
    IF c \in Range(UpperSeq)
    THEN LowerSeq[CHOOSE i \in DOMAIN UpperSeq : UpperSeq[i] = c]
    ELSE c

\* String.prototype.toLowerCase
ToLowerCase(text) == [ i \in 1..Len(text) |-> ToLowerChar(text[i]) ]

KeepChar(c) == IsWordChar(c) \/ IsWhitespace(c)

\* text.replace(/[^\w\s]/g, '')
StripNonWord(text) == SelectSeq(text, KeepChar)

\* String.prototype.trim
Trim(text) ==
    LET solid == { i \in 1..Len(text) : ~IsWhitespace(text[i]) }
    IN  IF solid = {} THEN << >>
        ELSE LET lo == CHOOSE i \in solid : \A j \in solid : i <= j
                 hi == CHOOSE i \in solid : \A j \in solid : j <= i
             IN  SubSeq(text, lo, hi)

\* String.prototype.includes
Includes(text, part) ==
    \E i \in 0..(Len(text) - Len(part)) : SubSeq(text, i + 1, i + Len(part)) = part

RECURSIVE SortedSeq(_)
SortedSeq(S) ==
    IF S = {} THEN << >>
    ELSE LET m == CHOOSE x \in S : \A y \in S : x <= y
         IN  << m >> \o SortedSeq(S \ { m })

\* text.split(/\s+/): the pieces between maximal runs of whitespace, the empty
\* pieces before a leading run and after a trailing run included.
SplitOnWhitespace(text) ==
    LET n == Len(text)
        \* p is 0 or the last position of a run of whitespace: a piece starts after it
        cuts == { 0 } \cup { p \in 1..n : IsWhitespace(text[p])
                                          /\ (p = n \/ ~IsWhitespace(text[p + 1])) }
        stops(p) == { q \in (p + 1)..n : IsWhitespace(text[q]) }
        last(p) == IF stops(p) = {} THEN n
                   ELSE (CHOOSE q \in stops(p) : \A q2 \in stops(p) : q <= q2) - 1
        order == SortedSeq(cuts)
    IN  [ k \in 1..Len(order) |-> SubSeq(text, order[k] + 1, last(order[k])) ]

(***************************************************************************)
(* Configuration                                                           *)
(***************************************************************************)
CHUNK_SIZE == 25
CHUNK_OVERLAP == 8
WORD_THRESHOLD == 95
SEMANTIC_THRESHOLD == 96
MAX_WORDS == 35
MAX_CHARS == 1000

Str_black == << "b","l","a","c","k" >>
Str_swear == << "s","w","e","a","r" >>
Str_belt == << "b","e","l","t" >>
Str_coffee == << "c","o","f","f","e","e" >>
Str_friday == << "f","r","i","d","a","y" >>
Space == << " " >>

ALLOWED_GENERAL == { Str_black, Str_swear }

\* ALLOWED_WORDS.CONTEXT_SPECIFIC, as a function on the labels it lists.
ALLOWED_CONTEXT_SPECIFIC ==
    [ w \in { Str_black } |->
        { Str_black \o Space \o Str_belt,
          Str_black \o Space \o Str_coffee,
          Str_black \o Space \o Str_friday } ]

(***************************************************************************)
(* TextProcessor                                                           *)
(***************************************************************************)
\* A slip: trims before the punctuation is removed.
sanitizeTextTrimFirst(text) == StripNonWord(Trim(ToLowerCase(text)))

sanitizeText(text) == Trim(StripNonWord(ToLowerCase(text)))

NonEmpty(s) == Len(s) > 0

splitIntoWords(text) == SelectSeq(SplitOnWhitespace(text), NonEmpty)

isAllowedInContext(word, context) ==
    IF word \notin DOMAIN ALLOWED_CONTEXT_SPECIFIC THEN FALSE
    ELSE \E allowedContext \in ALLOWED_CONTEXT_SPECIFIC[word] :
            Includes(context, allowedContext)

(***************************************************************************)
(* RecursiveCharacterTextSplitter({chunkSize, separators: [' '],           *)
(* chunkOverlap}) of the langchain dependency, which keeps the separator   *)
(* at the head of each split and merges splits greedily.                   *)
(***************************************************************************)
RECURSIVE Concat(_)
Concat(parts) == IF parts = << >> THEN << >> ELSE Head(parts) \o Concat(Tail(parts))

\* text.split(/(?= )/) without the empty pieces: a new piece starts at every space.
splitOnSeparator(text) ==
    LET n == Len(text)
        starts == IF n = 0 THEN {} ELSE { 1 } \cup { i \in 1..n : text[i] = " " }
        order == SortedSeq(starts)
        stop(k) == IF k = Len(order) THEN n ELSE order[k + 1] - 1
    IN  [ k \in 1..Len(order) |-> SubSeq(text, order[k], stop(k)) ]

\* joinDocs(docs, ""): the trimmed concatenation, as a list of zero or one chunk.
joinDocs(docs) ==
    LET joined == Trim(Concat(docs))
    IN  IF joined = << >> THEN << >> ELSE << joined >>

RECURSIVE popOverlap(_, _, _)
\* the while loop of mergeSplits that drops splits from the head of currentDoc
popOverlap(currentDoc, total, len) ==
    IF total > CHUNK_OVERLAP \/ (total + len > CHUNK_SIZE /\ total > 0)
    THEN popOverlap(Tail(currentDoc), total - Len(Head(currentDoc)), len)
    ELSE [ doc |-> currentDoc, total |-> total ]

RECURSIVE mergeLoop(_, _, _, _, _)
mergeLoop(splits, k, docs, currentDoc, total) ==
    IF k > Len(splits) THEN docs \o joinDocs(currentDoc)
    ELSE LET d == splits[k]
             len == Len(d)
             full == (total + len > CHUNK_SIZE) /\ Len(currentDoc) > 0
             kept == IF full THEN popOverlap(currentDoc, total, len)
                     ELSE [ doc |-> currentDoc, total |-> total ]
             docs2 == IF full THEN docs \o joinDocs(currentDoc) ELSE docs
         IN  mergeLoop(splits, k + 1, docs2, Append(kept.doc, d), kept.total + len)

mergeSplits(splits) == mergeLoop(splits, 1, << >>, << >>, 0)

\* _splitText(s, []): no separator is left, the text is split into characters.
splitChars(text) == mergeSplits([ i \in 1..Len(text) |-> << text[i] >> ])

RECURSIVE splitLoop(_, _, _, _, _)
splitLoop(splits, k, goodSplits, finalChunks, hasSeparator) ==
    IF k > Len(splits)
    THEN finalChunks \o (IF goodSplits = << >> THEN << >> ELSE mergeSplits(goodSplits))
    ELSE LET s == splits[k]
         IN  IF Len(s) < CHUNK_SIZE
             THEN splitLoop(splits, k + 1, Append(goodSplits, s), finalChunks, hasSeparator)
             ELSE LET flushed == finalChunks \o
                                 (IF goodSplits = << >> THEN << >> ELSE mergeSplits(goodSplits))
                      long == IF hasSeparator THEN splitChars(s) ELSE << s >>
                  IN  splitLoop(splits, k + 1, << >>, flushed \o long, hasSeparator)

\* createDocuments([text]).map(chunk => chunk.pageContent)
createDocuments(text) ==
    IF Includes(text, Space)
    THEN splitLoop(splitOnSeparator(text), 1, << >>, << >>, TRUE)
    ELSE splitLoop(IF text = << >> THEN << >> ELSE << text >>, 1, << >>, << >>, FALSE)

\* A slip: the guard on the word count is gone.
splitIntoSemanticsAlways(text) == createDocuments(text)

splitIntoSemantics(text) ==
    IF Len(splitIntoWords(text)) <= 1 THEN << >> ELSE createDocuments(text)

(***************************************************************************)
(* The similarity oracle (index.query with topK 1): an answer is a         *)
(* rejection, an empty list, or one vector with a score and a metadata     *)
(* text; a vector without metadata text has the label Undefined.           *)
(***************************************************************************)
Undefined == << "undefined" >>
Str_damn == << "d","a","m","n" >>

Fail == [ kind |-> "fail", score |-> 0, label |-> Undefined ]
Empty == [ kind |-> "empty", score |-> 0, label |-> Undefined ]
Match(score, label) == [ kind |-> "match", score |-> score, label |-> label ]

\* scores above both thresholds, and the labels they come with
Scores == { 97, 98 }
Labels == { Str_black, Str_damn }

\* every answer other than the empty list: a rejection, a vector without
\* metadata text, a score at each threshold, and the scores above both
OracleAnswers ==
    { Fail, Match(97, Undefined),
      Match(WORD_THRESHOLD, Str_damn), Match(SEMANTIC_THRESHOLD, Str_damn) }
    \cup { Match(s, l) : s \in Scores, l \in Labels }

\* at most MaxMatches lookups of one request get an answer other than the empty list
MaxMatches == 2

(***************************************************************************)
(* Messages the clients post                                               *)
(***************************************************************************)
Str_Belt == << "B","e","l","t","!" >>
Str_long ==
    << "i","n","c","o","m","p","r","e","h","e","n","s","i","b","i","l","i","t","i","e","s" >>
Str_this == << "t","h","i","s" >>
Str_is == << "i","s" >>
Str_a == << "a" >>
Str_competition == << "c","o","m","p","e","t","i","t","i","o","n" >>

Vocabulary == { Str_black, Str_Belt, Str_long }

\* a generated message has at most MaxWords words
MaxWords == 2

RECURSIVE JoinWords(_)
JoinWords(ws) ==
    IF ws = << >> THEN << >>
    ELSE IF Len(ws) = 1 THEN ws[1]
    ELSE ws[1] \o Space \o JoinWords(Tail(ws))

Repeat(text, n) == [ i \in 1..(n * Len(text)) |-> text[((i - 1) % Len(text)) + 1] ]

\* "this is a black belt competition"
Scenario ==
    JoinWords(<< Str_this, Str_is, Str_a, Str_black, Str_belt, Str_competition >>)

WhitespaceOnly == << " ", " " >>
TooManyWords == JoinWords([ i \in 1..(MAX_WORDS + 1) |-> Str_a ])
TooManyChars == Repeat(Str_a, MAX_CHARS + 1)

Messages ==
    { JoinWords(ws) : ws \in UNION { [ 1..n -> Vocabulary ] : n \in 0..MaxWords } }
    \cup { WhitespaceOnly, TooManyWords, TooManyChars }

\* messages with and without an allowed context of the label "black"
ContextMessages ==
    { Scenario, JoinWords(<< Str_long, Str_Belt >>), JoinWords(<< Str_black, Str_Belt >>) }

ContentTypes == { "application/json", "text/plain" }

(***************************************************************************)
(* State                                                                   *)
(***************************************************************************)
Requests == { 1, 2 }

VARIABLES
    pc,               \* where each request stands
    msg,              \* body.message of the request
    sanitizedMessage, \* handleDetection's sanitizedMessage
    words,            \* handleDetection's words
    semantics,        \* handleDetection's semantics
    pendingWords,     \* indices of the words whose query is in flight
    pendingChunks,    \* indices of the chunks whose query is in flight
    flaggedContent,   \* the Map of analyzeContent, entries in insertion order
    response,         \* what the route handler answered
    issued,           \* history: the units sent to the oracle
    hits              \* history: the answers other than the empty list, in order

vars == << pc, msg, sanitizedMessage, words, semantics, pendingWords,
           pendingChunks, flaggedContent, response, issued, hits >>

NoResponse == [ status |-> 0 ]
ErrorResponse(status) == [ status |-> status ]
CleanVerdict == [ status |-> 200, isImproprio |-> FALSE, pontuacao |-> 0 ]
\* A slip: the label is reported as the context.
FlaggedVerdictFlagAsContext(entry) ==
    [ status |-> 200, isImproprio |-> TRUE, pontuacao |-> entry.score,
      flag |-> entry.flag, contexto |-> entry.flag ]

FlaggedVerdict(entry) ==
    [ status |-> 200, isImproprio |-> TRUE, pontuacao |-> entry.score,
      flag |-> entry.flag, contexto |-> entry.context ]

WordUnit(i) == << "word", i >>
ChunkUnit(j) == << "chunk", j >>

Init ==
    /\ pc = [ r \in Requests |-> "idle" ]
    /\ msg = [ r \in Requests |-> << >> ]
    /\ sanitizedMessage = [ r \in Requests |-> << >> ]
    /\ words = [ r \in Requests |-> << >> ]
    /\ semantics = [ r \in Requests |-> << >> ]
    /\ pendingWords = [ r \in Requests |-> {} ]
    /\ pendingChunks = [ r \in Requests |-> {} ]
    /\ flaggedContent = [ r \in Requests |-> << >> ]
    /\ response = [ r \in Requests |-> NoResponse ]
    /\ issued = [ r \in Requests |-> {} ]
    /\ hits = [ r \in Requests |-> << >> ]

(***************************************************************************)
(* ProfanityDetectorAPI                                                    *)
(***************************************************************************)
\* the status of the rejection, or 0 for null
validateRequest(message) ==
    IF message = << >> THEN 400
    ELSE IF Len(SplitOnWhitespace(message)) > MAX_WORDS \/ Len(message) > MAX_CHARS
         THEN 413
         ELSE 0

\* A slip: a later entry of equal or lower score replaces the best one.
findHighestScoreLast(entries) ==
    IF entries = << >> THEN << >> ELSE << entries[Len(entries)] >>

\* A slip: the scan compares with >=, so the last of the tied entries wins.
findHighestScoreLastTie(entries) ==
    IF entries = << >> THEN << >>
    ELSE LET best == CHOOSE i \in 1..Len(entries) :
                        \A j \in 1..Len(entries) :
                            \/ entries[j].score < entries[i].score
                            \/ (entries[j].score = entries[i].score /\ j <= i)
         IN  << entries[best] >>

RECURSIVE scanEntries(_, _, _, _)
scanEntries(entries, k, highest, maxScore) ==
    IF k > Len(entries) THEN highest
    ELSE IF entries[k].score > maxScore
         THEN scanEntries(entries, k + 1, << entries[k] >>, entries[k].score)
         ELSE scanEntries(entries, k + 1, highest, maxScore)

\* the winning entry as a list of one, or the empty list for null
findHighestScore(entries) == scanEntries(entries, 1, << >>, -1)

\* A variant: a present key keeps the higher of the two scores.
MapSetKeepHighest(entries, flag, score, context) ==
    LET entry == [ flag |-> flag, score |-> score, context |-> context ]
        at == { i \in 1..Len(entries) : entries[i].flag = flag }
    IN  IF at = {} THEN Append(entries, entry)
        ELSE LET i == CHOOSE i \in at : TRUE
             IN  IF entries[i].score >= score THEN entries
                 ELSE [ entries EXCEPT ![i] = entry ]

\* A slip: a list instead of a Map, a present key gets a second entry.
MapSetAppend(entries, flag, score, context) ==
    Append(entries, [ flag |-> flag, score |-> score, context |-> context ])

\* A variant: first write wins, a present key keeps its value.
MapSetIfAbsent(entries, flag, score, context) ==
    IF \E i \in 1..Len(entries) : entries[i].flag = flag THEN entries
    ELSE Append(entries, [ flag |-> flag, score |-> score, context |-> context ])

\* Map.prototype.set: a present key keeps its place and takes the new value
MapSet(entries, flag, score, context) ==
    LET entry == [ flag |-> flag, score |-> score, context |-> context ]
        at == { i \in 1..Len(entries) : entries[i].flag = flag }
    IN  IF at = {} THEN Append(entries, entry)
        ELSE [ entries EXCEPT ![CHOOSE i \in at : TRUE] = entry ]

\* the Map a request's analyzeContent call works on: its own (new Map())
mapOfShared(r) == 1

mapOf(r) == r

\* words.map(async (word) => { if (ALLOWED_WORDS.GENERAL.has(word)) return ... })
wordsQueriedAll(ws) == { i \in 1..Len(ws) : TRUE }

wordsQueried(ws) == { i \in 1..Len(ws) : ws[i] \notin ALLOWED_GENERAL }

\* the body of the word callback after its query resolved
wordExemptNever(answer, context) == FALSE

wordExempt(answer, context) == isAllowedInContext(answer.label, context)

wordFlags(answer, context) ==
    /\ answer.kind = "match"
    /\ answer.score > WORD_THRESHOLD
    /\ ~wordExempt(answer, context)

\* A variant: the chunk callback skips a label of the general allowlist.
chunkFlagsNotGeneral(answer) ==
    /\ answer.kind = "match"
    /\ answer.score > SEMANTIC_THRESHOLD
    /\ answer.label \notin ALLOWED_GENERAL

chunkFlagsAtWordThreshold(answer) ==
    answer.kind = "match" /\ answer.score > WORD_THRESHOLD

chunkFlags(answer) ==
    answer.kind = "match" /\ answer.score > SEMANTIC_THRESHOLD

\* lines 244-258: the reduction of the Map to the verdict
verdictOf(entries) ==
    LET highestScore == findHighestScore(entries)
    IN  IF highestScore # << >> THEN FlaggedVerdict(highestScore[1]) ELSE CleanVerdict

\* the answers a lookup of request r may get from the oracle
Answers(r, oracle, limit) ==
    { Empty } \cup (IF Len(hits[r]) < limit THEN oracle ELSE {})

Logged(r, unit, answer) ==
    IF answer = Empty THEN hits[r]
    ELSE Append(hits[r], [ unit |-> unit, answer |-> answer ])

\* handleDetection up to the first suspension of analyzeContent: the header
\* check, validateRequest, sanitizeText, splitText, new Map() and the word fan-out
Receive(r, corpus) ==
    /\ pc[r] = "idle"
    /\ \E message \in corpus, contentType \in ContentTypes :
        /\ msg' = [ msg EXCEPT ![r] = message ]
        /\ IF contentType # "application/json"
           THEN /\ response' = [ response EXCEPT ![r] = ErrorResponse(406) ]
                /\ pc' = [ pc EXCEPT ![r] = "done" ]
                /\ UNCHANGED << sanitizedMessage, words, semantics, pendingWords,
                                flaggedContent, issued >>
           ELSE IF validateRequest(message) # 0
           THEN /\ response' = [ response EXCEPT ![r] =
                                    ErrorResponse(validateRequest(message)) ]
                /\ pc' = [ pc EXCEPT ![r] = "done" ]
                /\ UNCHANGED << sanitizedMessage, words, semantics, pendingWords,
                                flaggedContent, issued >>
           ELSE LET sanitized == sanitizeText(message)
                    ws == splitIntoWords(sanitized)
                IN  /\ sanitizedMessage' = [ sanitizedMessage EXCEPT ![r] = sanitized ]
                    /\ words' = [ words EXCEPT ![r] = ws ]
                    /\ semantics' = [ semantics EXCEPT ![r] = splitIntoSemantics(sanitized) ]
                    /\ flaggedContent' = [ flaggedContent EXCEPT ![mapOf(r)] = << >> ]
                    /\ pendingWords' = [ pendingWords EXCEPT ![r] = wordsQueried(ws) ]
                    /\ issued' = [ issued EXCEPT ![r] =
                                     { WordUnit(i) : i \in wordsQueried(ws) } ]
                    /\ pc' = [ pc EXCEPT ![r] = "words" ]
                    /\ UNCHANGED response
    /\ UNCHANGED << pendingChunks, hits >>

\* A slip: the route has no catch, the rejection is left without an answer.
RejectedUncaught(r, phase) ==
    IF pc[r] = phase
    THEN pc' = [ pc EXCEPT ![r] = "done" ] /\ UNCHANGED response
    ELSE UNCHANGED << pc, response >>

\* A rejected query rejects Promise.all, analyzeContent and handleDetection
\* throw, and the route's catch answers 500; the other callbacks still run.
Rejected(r, phase) ==
    IF pc[r] = phase
    THEN /\ pc' = [ pc EXCEPT ![r] = "done" ]
         /\ response' = [ response EXCEPT ![r] = ErrorResponse(500) ]
    ELSE UNCHANGED << pc, response >>

\* the query of one word settles and its callback runs to the end
CompleteWord(r, oracle, limit) ==
    \E i \in pendingWords[r], answer \in Answers(r, oracle, limit) :
        /\ pendingWords' = [ pendingWords EXCEPT ![r] = @ \ { i } ]
        /\ hits' = [ hits EXCEPT ![r] = Logged(r, WordUnit(i), answer) ]
        /\ IF answer.kind = "fail"
           THEN Rejected(r, "words") /\ UNCHANGED flaggedContent
           ELSE /\ flaggedContent' =
                     IF wordFlags(answer, sanitizedMessage[r])
                     THEN [ flaggedContent EXCEPT ![mapOf(r)] =
                              MapSet(@, answer.label, answer.score, words[r][i]) ]
                     ELSE flaggedContent
                /\ UNCHANGED << pc, response >>
        /\ UNCHANGED << msg, sanitizedMessage, words, semantics, pendingChunks, issued >>

\* A slip: the chunk fan-out does not await the first Promise.all.
WordsSettledEarly(r) ==
    /\ pc[r] = "words"
    /\ IF Len(semantics[r]) > 0
       THEN /\ pendingChunks' = [ pendingChunks EXCEPT ![r] = 1..Len(semantics[r]) ]
            /\ issued' = [ issued EXCEPT ![r] =
                             @ \cup { ChunkUnit(j) : j \in 1..Len(semantics[r]) } ]
            /\ pc' = [ pc EXCEPT ![r] = "chunks" ]
            /\ UNCHANGED response
       ELSE /\ response' = [ response EXCEPT ![r] = verdictOf(flaggedContent[mapOf(r)]) ]
            /\ pc' = [ pc EXCEPT ![r] = "done" ]
            /\ UNCHANGED << pendingChunks, issued >>
    /\ UNCHANGED << msg, sanitizedMessage, words, semantics, pendingWords,
                    flaggedContent, hits >>

\* the first Promise.all resolved: the chunk fan-out, or with no chunk the verdict
WordsSettled(r) ==
    /\ pc[r] = "words"
    /\ pendingWords[r] = {}
    /\ IF Len(semantics[r]) > 0
       THEN /\ pendingChunks' = [ pendingChunks EXCEPT ![r] = 1..Len(semantics[r]) ]
            /\ issued' = [ issued EXCEPT ![r] =
                             @ \cup { ChunkUnit(j) : j \in 1..Len(semantics[r]) } ]
            /\ pc' = [ pc EXCEPT ![r] = "chunks" ]
            /\ UNCHANGED response
       ELSE /\ response' = [ response EXCEPT ![r] = verdictOf(flaggedContent[mapOf(r)]) ]
            /\ pc' = [ pc EXCEPT ![r] = "done" ]
            /\ UNCHANGED << pendingChunks, issued >>
    /\ UNCHANGED << msg, sanitizedMessage, words, semantics, pendingWords,
                    flaggedContent, hits >>

\* the query of one chunk settles and its callback runs to the end
CompleteChunk(r, oracle, limit) ==
    \E j \in pendingChunks[r], answer \in Answers(r, oracle, limit) :
        /\ pendingChunks' = [ pendingChunks EXCEPT ![r] = @ \ { j } ]
        /\ hits' = [ hits EXCEPT ![r] = Logged(r, ChunkUnit(j), answer) ]
        /\ IF answer.kind = "fail"
           THEN Rejected(r, "chunks") /\ UNCHANGED flaggedContent
           ELSE /\ flaggedContent' =
                     IF chunkFlags(answer)
                     THEN [ flaggedContent EXCEPT ![mapOf(r)] =
                              MapSet(@, answer.label, answer.score, semantics[r][j]) ]
                     ELSE flaggedContent
                /\ UNCHANGED << pc, response >>
        /\ UNCHANGED << msg, sanitizedMessage, words, semantics, pendingWords, issued >>

\* the second Promise.all resolved: findHighestScore and the verdict
ChunksSettled(r) ==
    /\ pc[r] = "chunks"
    /\ pendingChunks[r] = {}
    /\ response' = [ response EXCEPT ![r] = verdictOf(flaggedContent[mapOf(r)]) ]
    /\ pc' = [ pc EXCEPT ![r] = "done" ]
    /\ UNCHANGED << msg, sanitizedMessage, words, semantics, pendingWords,
                    pendingChunks, flaggedContent, issued, hits >>

\* one request with every message and every oracle answer
Next ==
    \/ Receive(1, Messages)
    \/ CompleteWord(1, OracleAnswers, MaxMatches)
    \/ WordsSettled(1)
    \/ CompleteChunk(1, OracleAnswers, MaxMatches)
    \/ ChunksSettled(1)

Spec == Init /\ [][Next]_vars

\* one request with the messages around the context allowlist
NextContext ==
    \/ Receive(1, ContextMessages)
    \/ CompleteWord(1, OracleAnswers, MaxMatches)
    \/ WordsSettled(1)
    \/ CompleteChunk(1, OracleAnswers, MaxMatches)
    \/ ChunksSettled(1)

SpecContext == Init /\ [][NextContext]_vars

(***************************************************************************)
(* Vocabulary of the properties, read off the history variables            *)
(***************************************************************************)
UnitText(r, unit) ==
    IF unit[1] = "word" THEN words[r][unit[2]] ELSE semantics[r][unit[2]]

ThresholdOf(unit) ==
    IF unit[1] = "word" THEN WORD_THRESHOLD ELSE SEMANTIC_THRESHOLD

\* the label is listed in the context table with a context the message contains
ContextListed(label, context) ==
    /\ label \in DOMAIN ALLOWED_CONTEXT_SPECIFIC
    /\ \E part \in ALLOWED_CONTEXT_SPECIFIC[label] : Includes(context, part)

HitIndices(r) == 1..Len(hits[r])

FailedAt(r, k) == hits[r][k].answer.kind = "fail"

\* the lookup cleared its threshold and, for a word, its label is not context-exempt
Qualifies(r, k) ==
    LET h == hits[r][k]
    IN  /\ h.answer.kind = "match"
        /\ h.answer.score > ThresholdOf(h.unit)
        /\ (h.unit[1] = "word" => ~ContextListed(h.answer.label, sanitizedMessage[r]))

Qualifying(r) == { k \in HitIndices(r) : Qualifies(r, k) }

SetMax(S) == CHOOSE x \in S : \A y \in S : y <= x

\* the request was answered with an analysis verdict
HasVerdict(r) == pc[r] = "done" /\ response[r].status = 200

\* the verdict carries exactly what lookup k returned
VerdictIsHit(r, k) ==
    /\ HasVerdict(r)
    /\ response[r].isImproprio
    /\ response[r].flag = hits[r][k].answer.label
    /\ response[r].pontuacao = hits[r][k].answer.score
    /\ response[r].contexto = UnitText(r, hits[r][k].unit)

(***************************************************************************)
(* C1. A failed lookup counts as "no match" for its unit: a request in     *)
(* which one lookup failed and another one qualified still ends with a     *)
(* flagged verdict, never with an error response.                          *)
(***************************************************************************)
C1_FailedLookupIsNoMatch ==
    \A r \in Requests :
        ( /\ pc[r] = "done"
          /\ \E k \in HitIndices(r) : FailedAt(r, k)
          /\ Qualifying(r) # {} )
        => (response[r].status = 200 /\ response[r].isImproprio)

(***************************************************************************)
(* C2. As claimed: the score of a flagged verdict is the maximum score     *)
(* over all qualifying units of the request.                               *)
(***************************************************************************)
C2_ScoreIsMaxOverAllQualifying ==
    \A r \in Requests :
        (HasVerdict(r) /\ Qualifying(r) # {})
        => /\ response[r].isImproprio
           /\ response[r].pontuacao =
                SetMax({ hits[r][k].answer.score : k \in Qualifying(r) })

\* the qualifying lookups that no later qualifying lookup of the same label followed
LastPerLabel(r) ==
    { k \in Qualifying(r) :
        \A k2 \in Qualifying(r) :
            hits[r][k2].answer.label = hits[r][k].answer.label => k2 <= k }

DistinctLabels(r) ==
    \A k1, k2 \in Qualifying(r) :
        hits[r][k1].answer.label = hits[r][k2].answer.label => k1 = k2

(***************************************************************************)
(* C2, amended. The score of a verdict is the maximum, over the labels,    *)
(* of the score of the qualifying unit of that label that completed last   *)
(* (0 and clean when no unit qualifies); it is the maximum over all        *)
(* qualifying units whenever no two of them returned the same label.       *)
(***************************************************************************)
C2_ScoreIsMaxOverLastPerLabel ==
    \A r \in Requests :
        HasVerdict(r) =>
            IF Qualifying(r) = {}
            THEN response[r] = CleanVerdict
            ELSE /\ response[r].isImproprio
                 /\ response[r].pontuacao =
                      SetMax({ hits[r][k].answer.score : k \in LastPerLabel(r) })
                 /\ DistinctLabels(r) =>
                      response[r].pontuacao =
                        SetMax({ hits[r][k].answer.score : k \in Qualifying(r) })

\* two qualifying units of one label, the better one overwritten by the later one
C2_Witness ==
    \E r \in Requests :
        /\ HasVerdict(r)
        /\ \E k1, k2 \in Qualifying(r) :
            /\ k1 < k2
            /\ hits[r][k1].answer.label = hits[r][k2].answer.label
            /\ hits[r][k1].answer.score > hits[r][k2].answer.score
            /\ response[r].pontuacao = hits[r][k2].answer.score

(***************************************************************************)
(* C3. When the qualifying units returned pairwise different labels with   *)
(* pairwise different scores, the verdict reports the label, score and     *)
(* context of the unit with the greatest score, in every completion order. *)
(***************************************************************************)
C3_DistinctLabelsGreatestWins ==
    \A r \in Requests :
        ( /\ HasVerdict(r)
          /\ Qualifying(r) # {}
          /\ \A k1, k2 \in Qualifying(r) :
                k1 # k2 => /\ hits[r][k1].answer.label # hits[r][k2].answer.label
                           /\ hits[r][k1].answer.score # hits[r][k2].answer.score )
        => \E k \in Qualifying(r) :
              /\ \A k2 \in Qualifying(r) :
                    hits[r][k2].answer.score <= hits[r][k].answer.score
              /\ VerdictIsHit(r, k)

\* 0.98 completed before 0.97 under another label, and the verdict is the 0.98 one
C3_Witness ==
    \E r \in Requests :
        /\ Cardinality(Qualifying(r)) = 2
        /\ \E k1, k2 \in Qualifying(r) :
            /\ k1 < k2
            /\ hits[r][k1].answer.label # hits[r][k2].answer.label
            /\ hits[r][k1].answer.score = 98
            /\ hits[r][k2].answer.score = 97
            /\ VerdictIsHit(r, k1)

NoFailure(r) == \A k \in HitIndices(r) : ~FailedAt(r, k)

(***************************************************************************)
(* C4. If exactly one unit qualifies and every lookup succeeded, the       *)
(* verdict is flagged with that unit's returned label, its score and its   *)
(* own text as context.                                                    *)
(***************************************************************************)
C4_SingleQualifyingUnitIsReported ==
    \A r \in Requests :
        ( /\ pc[r] = "done"
          /\ NoFailure(r)
          /\ Cardinality(Qualifying(r)) = 1 )
        => \E k \in Qualifying(r) : VerdictIsHit(r, k)

\* one chunk qualified, a word below its threshold did not, the chunk is reported
C4_Witness ==
    \E r \in Requests :
        /\ Cardinality(Qualifying(r)) = 1
        /\ Len(hits[r]) = 2
        /\ \E k \in Qualifying(r) :
            /\ hits[r][k].unit[1] = "chunk"
            /\ VerdictIsHit(r, k)

\* the request passed the header check and validateRequest and was answered
Analysed(r) == pc[r] = "done" /\ response[r].status \notin { 400, 406, 413 }

(***************************************************************************)
(* C5. If every lookup answered and none scored strictly above its         *)
(* threshold (0.95 for a word, 0.96 for a chunk, equality included), the   *)
(* result is the clean verdict with score 0; a word scoring in             *)
(* (0.95, 0.96] under a label that is not exempt flags the request, the    *)
(* same score on a chunk does not.                                         *)
(***************************************************************************)
C5_NothingAboveThresholdIsClean ==
    \A r \in Requests :
        /\ ( /\ Analysed(r)
             /\ NoFailure(r)
             /\ \A k \in HitIndices(r) :
                    hits[r][k].answer.score <= ThresholdOf(hits[r][k].unit) )
           => response[r] = CleanVerdict
        /\ ( /\ Analysed(r)
             /\ NoFailure(r)
             /\ \E k \in HitIndices(r) :
                    /\ hits[r][k].unit[1] = "word"
                    /\ hits[r][k].answer.kind = "match"
                    /\ hits[r][k].answer.score > WORD_THRESHOLD
                    /\ hits[r][k].answer.score <= SEMANTIC_THRESHOLD
                    /\ ~ContextListed(hits[r][k].answer.label, sanitizedMessage[r]) )
           => (response[r].status = 200 /\ response[r].isImproprio)

\* a word at exactly 0.95 and a chunk at exactly 0.96, and the verdict is clean
C5_Witness ==
    \E r \in Requests :
        /\ response[r] = CleanVerdict
        /\ \E k1, k2 \in HitIndices(r) :
            /\ hits[r][k1].unit[1] = "word"
            /\ hits[r][k1].answer.score = WORD_THRESHOLD
            /\ hits[r][k2].unit[1] = "chunk"
            /\ hits[r][k2].answer.score = SEMANTIC_THRESHOLD

\* the entries of the request's Map
Entries(r) == Range(flaggedContent[r])

\* the entry is what a chunk lookup of the request recorded
FromChunk(r, entry) ==
    \E k \in HitIndices(r) :
        /\ hits[r][k].unit[1] = "chunk"
        /\ hits[r][k].answer.label = entry.flag
        /\ hits[r][k].answer.score = entry.score
        /\ UnitText(r, hits[r][k].unit) = entry.context

(***************************************************************************)
(* C6. As claimed: the text of a token of the general allowlist is never   *)
(* sent to the oracle during a request, also when a chunk consists of that *)
(* token alone.                                                            *)
(***************************************************************************)
C6_AllowedTokenNeverSent ==
    \A r \in Requests :
        \A unit \in issued[r] : UnitText(r, unit) \notin ALLOWED_GENERAL

(***************************************************************************)
(* C6, amended. A token of the general allowlist is never sent to the      *)
(* oracle as a word unit and never is the context of a word-level match;   *)
(* a chunk that consists of that token alone is sent and can be flagged.   *)
(***************************************************************************)
C6_AllowedTokenNeverSentAsWord ==
    \A r \in Requests :
        /\ \A unit \in issued[r] :
              unit[1] = "word" => UnitText(r, unit) \notin ALLOWED_GENERAL
        /\ \A entry \in Entries(r) :
              entry.context \in ALLOWED_GENERAL => FromChunk(r, entry)

\* the chunk "black" was sent to the oracle and the verdict carries it as context
C6_Witness ==
    \E r \in Requests :
        /\ HasVerdict(r)
        /\ response[r].isImproprio
        /\ response[r].contexto = Str_black
        /\ \E unit \in issued[r] : unit[1] = "chunk" /\ UnitText(r, unit) = Str_black

(***************************************************************************)
(* C7. If the sanitized message contains an allowed context listed for a   *)
(* label, no word-level lookup records a candidate under that label,       *)
(* whatever its score; a label the context table does not list is never    *)
(* exempt.  So "this is a black belt competition", where the words that    *)
(* match do so under "black" and no chunk is above its threshold, is       *)
(* clean.                                                                  *)
(***************************************************************************)
C7_ContextExemptLabelNotRecordedByWord ==
    \A r \in Requests :
        /\ \A entry \in Entries(r) :
              ContextListed(entry.flag, sanitizedMessage[r]) => FromChunk(r, entry)
        /\ \A k \in HitIndices(r) :
              ( /\ hits[r][k].unit[1] = "word"
                /\ hits[r][k].answer.kind = "match"
                /\ hits[r][k].answer.score > WORD_THRESHOLD
                /\ hits[r][k].answer.label \notin DOMAIN ALLOWED_CONTEXT_SPECIFIC )
              => \E entry \in Entries(r) : entry.flag = hits[r][k].answer.label
        /\ ( /\ msg[r] = Scenario
             /\ Analysed(r)
             /\ NoFailure(r)
             /\ \A k \in HitIndices(r) :
                   IF hits[r][k].unit[1] = "word"
                   THEN hits[r][k].answer.label = Str_black
                   ELSE hits[r][k].answer.score <= SEMANTIC_THRESHOLD )
           => response[r] = CleanVerdict

\* a word of the scenario message matched "black" at 0.97 and the verdict is clean
C7_Witness ==
    \E r \in Requests :
        /\ msg[r] = Scenario
        /\ sanitizedMessage[r] = Scenario
        /\ response[r] = CleanVerdict
        /\ \E k \in HitIndices(r) :
            /\ hits[r][k].unit[1] = "word"
            /\ hits[r][k].answer = Match(97, Str_black)

\* the message breaks the invariant of an AnalysisRequest
InvalidMessage(message) ==
    \/ Trim(message) = << >>
    \/ Len(splitIntoWords(message)) > MAX_WORDS
    \/ Len(message) > MAX_CHARS

(***************************************************************************)
(* C8. A request whose message is empty after trim, has more than 35       *)
(* words or more than 1000 characters is rejected before any processing:   *)
(* it gets no analysis verdict, it is not sanitized and no lookup is       *)
(* issued for it.                                                          *)
(***************************************************************************)
C8_InvalidMessageRejected ==
    \A r \in Requests :
        (pc[r] = "done" /\ InvalidMessage(msg[r]))
        => /\ response[r].status \in { 400, 406, 413 }
           /\ issued[r] = {}

(***************************************************************************)
(* Two requests in flight at once                                          *)
(***************************************************************************)
PairMessages == { Str_Belt, JoinWords(<< Str_black, Str_Belt >>) }

PairAnswers == { Fail, Match(97, Str_damn), Match(98, Str_black) }

NextPair ==
    \E r \in Requests :
        \/ Receive(r, PairMessages)
        \/ CompleteWord(r, PairAnswers, MaxMatches)
        \/ WordsSettled(r)
        \/ CompleteChunk(r, PairAnswers, MaxMatches)
        \/ ChunksSettled(r)

SpecPair == Init /\ [][NextPair]_vars

RECURSIVE AloneMap(_, _)
\* the Map of a request that ran alone, after its first k answers
AloneMap(r, k) ==
    IF k = 0 THEN << >>
    ELSE LET h == hits[r][k]
             before == AloneMap(r, k - 1)
             flags == IF h.unit[1] = "word"
                      THEN wordFlags(h.answer, sanitizedMessage[r])
                      ELSE chunkFlags(h.answer)
         IN  IF flags
             THEN MapSet(before, h.answer.label, h.answer.score, UnitText(r, h.unit))
             ELSE before

\* the response of a request that ran alone on its message and its answers
AloneResponse(r) ==
    IF \E k \in HitIndices(r) : FailedAt(r, k)
    THEN ErrorResponse(500)
    ELSE verdictOf(AloneMap(r, Len(hits[r])))

(***************************************************************************)
(* C9. Requests are independent: with the completions of two requests      *)
(* interleaved in any way, the Map of each request holds only what its own *)
(* lookups recorded, and its response is the one it produces running alone *)
(* on the same message and the same oracle answers.                        *)
(***************************************************************************)
C9_RequestsAreIndependent ==
    \A r \in Requests :
        /\ flaggedContent[r] = AloneMap(r, Len(hits[r]))
        /\ Analysed(r) => response[r] = AloneResponse(r)

\* both requests are between fan-out and verdict, each with a candidate of its own
C9_Witness ==
    /\ pc[1] \in { "words", "chunks" }
    /\ pc[2] \in { "words", "chunks" }
    /\ flaggedContent[1] # << >>
    /\ flaggedContent[2] # << >>
    /\ flaggedContent[1] # flaggedContent[2]

(***************************************************************************)
(* sanitizeText applied to every short string, and again to its result     *)
(***************************************************************************)
Alphabet == { "a", "B", "7", "_", "!", " ", "\n" }

\* the strings sanitized have at most MaxLen characters
MaxLen == 4

Strings == UNION { [ 1..n -> Alphabet ] : n \in 0..MaxLen }

InitSanitize ==
    /\ pc = [ r \in Requests |-> IF r = 1 THEN "raw" ELSE "idle" ]
    /\ \E text \in Strings : msg = [ r \in Requests |-> IF r = 1 THEN text ELSE << >> ]
    /\ sanitizedMessage = [ r \in Requests |-> << >> ]
    /\ words = [ r \in Requests |-> << >> ]
    /\ semantics = [ r \in Requests |-> << >> ]
    /\ pendingWords = [ r \in Requests |-> {} ]
    /\ pendingChunks = [ r \in Requests |-> {} ]
    /\ flaggedContent = [ r \in Requests |-> << >> ]
    /\ response = [ r \in Requests |-> NoResponse ]
    /\ issued = [ r \in Requests |-> {} ]
    /\ hits = [ r \in Requests |-> << >> ]

Sanitize(r) ==
    /\ pc[r] = "raw"
    /\ sanitizedMessage' = [ sanitizedMessage EXCEPT ![r] = sanitizeText(msg[r]) ]
    /\ pc' = [ pc EXCEPT ![r] = "once" ]
    /\ UNCHANGED << msg, words, semantics, pendingWords, pendingChunks,
                    flaggedContent, response, issued, hits >>

\* the sanitized text is taken as the next input
SanitizeAgain(r) ==
    /\ pc[r] = "once"
    /\ msg' = [ msg EXCEPT ![r] = sanitizedMessage[r] ]
    /\ sanitizedMessage' = [ sanitizedMessage EXCEPT ![r] = sanitizeText(sanitizedMessage[r]) ]
    /\ pc' = [ pc EXCEPT ![r] = "twice" ]
    /\ UNCHANGED << words, semantics, pendingWords, pendingChunks,
                    flaggedContent, response, issued, hits >>

NextSanitize == Sanitize(1) \/ SanitizeAgain(1)

SpecSanitize == InitSanitize /\ [][NextSanitize]_vars

\* lowercase word characters and whitespace only, none of it at either end
IsSanitized(text) ==
    /\ \A i \in 1..Len(text) :
          \/ text[i] \in Range(LowerSeq) \cup Digits \cup { "_" }
          \/ IsWhitespace(text[i])
    /\ text # << >> => (~IsWhitespace(text[1]) /\ ~IsWhitespace(text[Len(text)]))

(***************************************************************************)
(* C10. sanitizeText is idempotent on the strings over upper- and          *)
(* lower-case letters, digits, underscore, punctuation and whitespace, and *)
(* its output holds only lowercase word characters and whitespace, with no *)
(* whitespace at either end.                                               *)
(***************************************************************************)
C10_SanitizeIdempotent ==
    \A r \in Requests :
        /\ pc[r] \in { "once", "twice" } => IsSanitized(sanitizedMessage[r])
        /\ pc[r] = "twice" => sanitizedMessage[r] = msg[r]

\* a text with inner whitespace went through sanitizeText twice
C10_Witness ==
    \E r \in Requests :
        /\ pc[r] = "twice"
        /\ Len(sanitizedMessage[r]) = 3
        /\ IsWhitespace(sanitizedMessage[r][2])

(***************************************************************************)
(* C11. For a sanitized text of zero or one word splitText returns no      *)
(* chunk, the request issues no chunk lookup, and the only lookup issued   *)
(* is the one of its word when that word is not in the general allowlist.  *)
(***************************************************************************)
C11_ShortTextHasNoChunk ==
    \A r \in Requests :
        (pc[r] # "idle" /\ Len(words[r]) <= 1)
        => /\ semantics[r] = << >>
           /\ \A unit \in issued[r] :
                 unit[1] = "word" /\ UnitText(r, unit) \notin ALLOWED_GENERAL
           /\ Cardinality(issued[r]) <= 1
           /\ Cardinality(issued[r]) = Cardinality(Range(words[r]) \ ALLOWED_GENERAL)

\* a one-word message was flagged by its word after one lookup and no other
C11_Witness ==
    \E r \in Requests :
        /\ HasVerdict(r)
        /\ Len(words[r]) = 1
        /\ issued[r] = { WordUnit(1) }
        /\ response[r].isImproprio
        /\ response[r].contexto = words[r][1]

\* the units the request has to look up: its words outside the general
\* allowlist and its chunks
AllUnits(r) ==
    { WordUnit(i) : i \in wordsQueried(words[r]) }
    \cup { ChunkUnit(j) : j \in 1..Len(semantics[r]) }

(***************************************************************************)
(* C12. As claimed: the word lookups and the chunk lookups of a request    *)
(* are fanned out together, so that from the fan-out on every unit of the  *)
(* request has been sent to the oracle.                                    *)
(***************************************************************************)
C12_AllLookupsFannedOutTogether ==
    \A r \in Requests :
        pc[r] \in { "words", "chunks" } => issued[r] = AllUnits(r)

(***************************************************************************)
(* C12, amended. The lookups go out in two waves: the word lookups         *)
(* together at the start, the chunk lookups together once every word       *)
(* lookup has completed.  No chunk lookup is issued or pending while a     *)
(* word lookup is pending, and every word completion precedes every chunk  *)
(* completion; inside a wave the completions come in any order.            *)
(***************************************************************************)
C12_TwoWavesWordsThenChunks ==
    \A r \in Requests :
        /\ pc[r] = "words" =>
              /\ issued[r] = { WordUnit(i) : i \in wordsQueried(words[r]) }
              /\ pendingChunks[r] = {}
        /\ pc[r] = "chunks" => (issued[r] = AllUnits(r) /\ pendingWords[r] = {})
        /\ (\E unit \in issued[r] : unit[1] = "chunk") => pendingWords[r] = {}
        /\ \A k1, k2 \in HitIndices(r) :
              (k1 < k2 /\ hits[r][k1].unit[1] = "chunk") => hits[r][k2].unit[1] = "chunk"

\* the second word answered before the first, and both chunks are now in flight
C12_Witness ==
    \E r \in Requests :
        /\ pc[r] = "chunks"
        /\ Cardinality(pendingChunks[r]) = 2
        /\ Len(hits[r]) = 2
        /\ hits[r][1].unit = WordUnit(2)
        /\ hits[r][2].unit = WordUnit(1)

\* a lookup of the request is in flight
Pending(r) == pendingWords[r] # {} \/ pendingChunks[r] # {}

(***************************************************************************)
(* C13. Gather barrier: no response, verdict or error, is produced for a   *)
(* request while a lookup issued for it is still pending; the verdict is   *)
(* computed from the Map as it stands once every lookup has completed.     *)
(***************************************************************************)
C13_NoResponseWhilePending ==
    \A r \in Requests :
        /\ response[r] # NoResponse => ~Pending(r)
        /\ HasVerdict(r) => response[r] = verdictOf(flaggedContent[r])

(***************************************************************************)
(* Two requests with the same message, their lookups answered in any order *)
(***************************************************************************)
OrderMessages == { JoinWords(<< Str_Belt, Str_Belt >>) }

\* one label at two scores, and a second label that ties with the first
OrderAnswers == { Match(97, Str_damn), Match(98, Str_damn), Match(98, Str_black) }

\* every lookup of the three units of the message may get a match
OrderMatches == MaxMatches + 1

NextOrder ==
    \E r \in Requests :
        \/ Receive(r, OrderMessages)
        \/ CompleteWord(r, OrderAnswers, OrderMatches)
        \/ WordsSettled(r)
        \/ CompleteChunk(r, OrderAnswers, OrderMatches)
        \/ ChunksSettled(r)

SpecOrder == Init /\ [][NextOrder]_vars

\* the entry holds the label, the score and the unit text of lookup k
EntryIsHit(r, entry, k) ==
    /\ entry.flag = hits[r][k].answer.label
    /\ entry.score = hits[r][k].answer.score
    /\ entry.context = UnitText(r, hits[r][k].unit)

\* the answer the oracle gave to a unit of the request
AnswerTo(r, unit) ==
    IF \E k \in HitIndices(r) : hits[r][k].unit = unit
    THEN hits[r][CHOOSE k \in HitIndices(r) : hits[r][k].unit = unit].answer
    ELSE Empty

(***************************************************************************)
(* C14. Per-label last-write-wins: the Map holds exactly one entry for     *)
(* each label under which a unit qualified, with the score and the context *)
(* of the qualifying unit of that label that completed last, and no other  *)
(* entry.                                                                  *)
(***************************************************************************)
C14_LastWritePerLabel ==
    \A r \in Requests :
        /\ \A i, j \in 1..Len(flaggedContent[r]) :
              flaggedContent[r][i].flag = flaggedContent[r][j].flag => i = j
        /\ \A k \in LastPerLabel(r) :
              \E entry \in Entries(r) : EntryIsHit(r, entry, k)
        /\ \A entry \in Entries(r) :
              \E k \in LastPerLabel(r) : EntryIsHit(r, entry, k)

\* both outcomes: two requests with the same message and the same answer for
\* each unit, the two words matching one label in opposite completion orders,
\* and the two verdicts report different scores for that label
C14_Witness ==
    /\ HasVerdict(1) /\ HasVerdict(2)
    /\ msg[1] = msg[2]
    /\ \A unit \in issued[1] \cup issued[2] : AnswerTo(1, unit) = AnswerTo(2, unit)
    /\ AnswerTo(1, WordUnit(1)) = Match(98, Str_damn)
    /\ AnswerTo(1, WordUnit(2)) = Match(97, Str_damn)
    /\ AnswerTo(1, ChunkUnit(1)) = Empty
    /\ response[1].flag = Str_damn /\ response[1].pontuacao = 97
    /\ response[2].flag = Str_damn /\ response[2].pontuacao = 98

\* the first qualifying lookup that returned the label of lookup k
FirstOfLabel(r, k) ==
    CHOOSE k1 \in Qualifying(r) :
        /\ hits[r][k1].answer.label = hits[r][k].answer.label
        /\ \A k2 \in Qualifying(r) :
              hits[r][k2].answer.label = hits[r][k].answer.label => k1 <= k2

\* the lookups whose entry stands in the Map with the greatest score
Tied(r) ==
    { k \in LastPerLabel(r) :
        \A k2 \in LastPerLabel(r) : hits[r][k2].answer.score <= hits[r][k].answer.score }

(***************************************************************************)
(* C15. Tie-break: the entries of the Map stand in the order in which      *)
(* their labels were first recorded, an overwrite of a present label       *)
(* leaving its place unchanged, and when several labels share the greatest *)
(* score the verdict reports the one among them that was recorded first.   *)
(***************************************************************************)
C15_FirstInsertedWinsTie ==
    \A r \in Requests :
        /\ \A i, j \in 1..Len(flaggedContent[r]) :
              i < j =>
                \E ki, kj \in LastPerLabel(r) :
                    /\ EntryIsHit(r, flaggedContent[r][i], ki)
                    /\ EntryIsHit(r, flaggedContent[r][j], kj)
                    /\ FirstOfLabel(r, ki) < FirstOfLabel(r, kj)
        /\ (HasVerdict(r) /\ Qualifying(r) # {}) =>
              \E k \in Tied(r) :
                  /\ \A k2 \in Tied(r) : FirstOfLabel(r, k) <= FirstOfLabel(r, k2)
                  /\ VerdictIsHit(r, k)

\* "damn" recorded first at 0.97, "black" second at 0.98, then "damn"
\* overwritten at 0.98 by the chunk: the tie goes to "damn"
C15_Witness ==
    \E r \in Requests :
        /\ HasVerdict(r)
        /\ Len(hits[r]) = 3
        /\ hits[r][1].answer = Match(97, Str_damn)
        /\ hits[r][2].answer = Match(98, Str_black)
        /\ hits[r][3].answer = Match(98, Str_damn)
        /\ hits[r][3].unit = ChunkUnit(1)
        /\ response[r].flag = Str_damn
        /\ response[r].pontuacao = 98
        /\ response[r].contexto = semantics[r][1]

(***************************************************************************)
(* C16. Chunk matches bypass both allowlists: a chunk whose lookup scores  *)
(* above 0.96 is recorded under the returned label, also when the label is *)
(* context-exempt for the message or is a token of the general allowlist.  *)
(* So "this is a black belt competition" is flagged when one of its chunks *)
(* returns "black" above 0.96, and with the label "black" when nothing     *)
(* qualified under another label.                                          *)
(***************************************************************************)
C16_ChunkMatchBypassesAllowlists ==
    \A r \in Requests :
        /\ \A k \in HitIndices(r) :
              ( /\ hits[r][k].unit[1] = "chunk"
                /\ hits[r][k].answer.kind = "match"
                /\ hits[r][k].answer.score > SEMANTIC_THRESHOLD )
              => \E entry \in Entries(r) :
                    /\ entry.flag = hits[r][k].answer.label
                    /\ FromChunk(r, entry)
        /\ ( /\ msg[r] = Scenario
             /\ HasVerdict(r)
             /\ \E k \in HitIndices(r) :
                   /\ hits[r][k].unit[1] = "chunk"
                   /\ hits[r][k].answer.kind = "match"
                   /\ hits[r][k].answer.label = Str_black
                   /\ hits[r][k].answer.score > SEMANTIC_THRESHOLD )
           => /\ response[r].isImproprio
              /\ (\A k \in Qualifying(r) : hits[r][k].answer.label = Str_black)
                    => response[r].flag = Str_black

\* the scenario message, whose words are exempt under "black", is flagged
\* "black" by its chunk "this is a black belt"
C16_Witness ==
    \E r \in Requests :
        /\ msg[r] = Scenario
        /\ ContextListed(Str_black, sanitizedMessage[r])
        /\ Str_black \in ALLOWED_GENERAL
        /\ HasVerdict(r)
        /\ response[r].isImproprio
        /\ response[r].flag = Str_black
        /\ response[r].contexto = JoinWords(<< Str_this, Str_is, Str_a, Str_black, Str_belt >>)

(***************************************************************************)
(* C17. A malformed answer of the oracle (a score above the threshold      *)
(* without a metadata text, or an empty answer) is no match for its unit:  *)
(* when the verdict is emitted no entry of the Map and no flagged verdict  *)
(* has a missing label.                                                    *)
(***************************************************************************)
C17_MalformedAnswerIsNoMatch ==
    \A r \in Requests :
        HasVerdict(r) =>
            /\ \A entry \in Entries(r) : entry.flag # Undefined
            /\ response[r].isImproprio => response[r].flag # Undefined

(***************************************************************************)
(* One request whose lookups all come back: every query that is in flight  *)
(* eventually settles and the continuation of a resolved Promise.all       *)
(* eventually runs.  The arrival of the request is not forced.             *)
(***************************************************************************)
LiveMessages == PairMessages \cup OrderMessages \cup { WhitespaceOnly, TooManyWords }

NextLive ==
    \/ Receive(1, LiveMessages)
    \/ CompleteWord(1, OracleAnswers, MaxMatches)
    \/ WordsSettled(1)
    \/ CompleteChunk(1, OracleAnswers, MaxMatches)
    \/ ChunksSettled(1)

SpecLive ==
    /\ Init
    /\ [][NextLive]_vars
    /\ WF_vars(CompleteWord(1, OracleAnswers, MaxMatches))
    /\ WF_vars(WordsSettled(1))
    /\ WF_vars(CompleteChunk(1, OracleAnswers, MaxMatches))
    /\ WF_vars(ChunksSettled(1))

\* the unit's lookup is in flight
InFlight(r, unit) ==
    IF unit[1] = "word" THEN unit[2] \in pendingWords[r] ELSE unit[2] \in pendingChunks[r]

\* a step sends a unit to the oracle only if it was never sent before
NoRetryStep ==
    \A r \in Requests :
        /\ \A unit \in issued[r] : InFlight(r, unit)' => InFlight(r, unit)
        /\ \A unit \in issued'[r] \ issued[r] : InFlight(r, unit)'
        /\ issued[r] \subseteq issued'[r]

\* a response once given is the response
AnsweredOnceStep ==
    \A r \in Requests : response[r] # NoResponse => response'[r] = response[r]

(***************************************************************************)
(* C18. Liveness: when every issued lookup eventually completes, a request *)
(* that passed validation eventually gets a response, a verdict or an      *)
(* error; the response is given once and never changed, and no unit is     *)
(* sent to the oracle a second time.                                       *)
(***************************************************************************)
C18_AcceptedRequestIsAnsweredOnce ==
    /\ \A r \in Requests :
          (pc[r] \in { "words", "chunks" }) ~> (response[r] # NoResponse /\ pc[r] = "done")
    /\ <>[](\A r \in Requests : ~Pending(r))
    /\ [][AnsweredOnceStep]_vars
    /\ [][NoRetryStep]_vars

\* a word lookup was rejected and answered 500, the other word lookup came
\* back later and changed nothing; no chunk was sent
C18_Witness ==
    \E r \in Requests :
        /\ response[r] = ErrorResponse(500)
        /\ Len(words[r]) = 2
        /\ issued[r] = { WordUnit(1), WordUnit(2) }
        /\ Len(semantics[r]) > 0
        /\ ~Pending(r)
        /\ FailedAt(r, 1)
        /\ Len(hits[r]) = 2

(***************************************************************************)
(* C19. Chunk precedence for a shared label: when a word unit and a chunk  *)
(* unit of a request both qualified under one label, the word completed    *)
(* before the chunk and the entry of that label carries the score and the  *)
(* context of a chunk, of that chunk when no other chunk qualified under   *)
(* the label, also when the word's score is the higher one.                *)
(***************************************************************************)
C19_ChunkOverwritesWordOfSameLabel ==
    \A r \in Requests :
        LET qualifying == Qualifying(r)
            last == LastPerLabel(r)
        IN  \A kw, kc \in qualifying :
                ( /\ hits[r][kw].unit[1] = "word"
                  /\ hits[r][kc].unit[1] = "chunk"
                  /\ hits[r][kw].answer.label = hits[r][kc].answer.label )
                => /\ kw < kc
                   /\ \E entry \in Entries(r) :
                         /\ entry.flag = hits[r][kc].answer.label
                         /\ \E k \in last :
                               hits[r][k].unit[1] = "chunk" /\ EntryIsHit(r, entry, k)
                         /\ (\A k \in qualifying :
                                ( /\ hits[r][k].unit[1] = "chunk"
                                  /\ hits[r][k].answer.label = hits[r][kc].answer.label )
                                => k = kc)
                            => EntryIsHit(r, entry, kc)

\* a word at 0.98 and a chunk at 0.97 under "damn": the verdict is the chunk's
C19_Witness ==
    \E r \in Requests :
        /\ HasVerdict(r)
        /\ Len(hits[r]) = 2
        /\ hits[r][1].unit[1] = "word"
        /\ hits[r][1].answer = Match(98, Str_damn)
        /\ hits[r][2].unit[1] = "chunk"
        /\ hits[r][2].answer = Match(97, Str_damn)
        /\ response[r].pontuacao = 97
        /\ response[r].contexto = UnitText(r, hits[r][2].unit)

(***************************************************************************)
(* C20. Verdict well-formedness: an emitted verdict is either the clean    *)
(* one, score 0 without label and context, or a flagged one with a label   *)
(* present, a score above 0.95 and as context the text of a word unit or a *)
(* chunk unit sent for the request; a flagged verdict that a chunk lookup  *)
(* recorded has a score above 0.96.                                        *)
(***************************************************************************)
C20_VerdictWellFormed ==
    \A r \in Requests :
        HasVerdict(r) =>
            \/ response[r] = CleanVerdict
            \/ /\ response[r].isImproprio
               /\ response[r].flag # Undefined
               /\ response[r].pontuacao > WORD_THRESHOLD
               /\ \E unit \in issued[r] : response[r].contexto = UnitText(r, unit)
               /\ \A k \in LastPerLabel(r) :
                     (hits[r][k].unit[1] = "chunk" /\ VerdictIsHit(r, k))
                     => response[r].pontuacao > SEMANTIC_THRESHOLD

=============================================================================
